---- MODULE Spec2Model ----
(***************************************************************************)
(* State-machine model of the ScrollArea scroll synchronisation engine     *)
(* (ScrollArea2.tsx): the geometry conversions, the per-axis scrollbar     *)
(* controller, the visibility policies, the activity state machine of the  *)
(* "scroll" policy, the drag session and the wheel interceptor.            *)
(*                                                                         *)
(* Every event callback of the component is one action: the callback, the  *)
(* re-render it causes and the effects of that re-render run to completion *)
(* before the next event is taken (React commits synchronously for these   *)
(* discrete events; JavaScript is single threaded).                        *)
(***************************************************************************)
EXTENDS Integers, Sequences, FiniteSets, TLC

(***************************************************************************)
(* JavaScript numbers.  A number is a pair <<n, d>> with d >= 0 in lowest  *)
(* terms: n/d when d > 0, and +Infinity <<1,0>>, -Infinity <<-1,0>> and    *)
(* NaN <<0,0>> when d = 0, with the IEEE-754 rules for the operations the  *)
(* component uses.  Rounding of binary floating point and the sign of zero *)
(* are not modelled.                                                       *)
(***************************************************************************)
Abs(i) == IF i < 0 THEN -i ELSE i

Sgn(i) == IF i < 0 THEN -1 ELSE IF i > 0 THEN 1 ELSE 0

RECURSIVE Gcd(_, _)
Gcd(a, b) == IF b = 0 THEN a ELSE Gcd(b, a % b)

Norm(n, d) ==
    IF d = 0 THEN <<Sgn(n), 0>>
    ELSE LET g == Gcd(Abs(n), Abs(d))
         IN  <<(Sgn(d) * n) \div g, Abs(d) \div g>>

N(i) == <<i, 1>>

NaN == <<0, 0>>

IsNaN(a) == a = NaN

IsFinite(a) == a[2] > 0

Add(a, b) ==
    IF a[2] = 0 /\ b[2] = 0 THEN (IF a = b THEN a ELSE NaN)
    ELSE Norm(a[1] * b[2] + b[1] * a[2], a[2] * b[2])

Neg(a) == <<-a[1], a[2]>>

Sub(a, b) == Add(a, Neg(b))

Mul(a, b) == Norm(a[1] * b[1], a[2] * b[2])

Div(a, b) == Norm(a[1] * b[2] * (IF b[1] < 0 THEN -1 ELSE 1), a[2] * Abs(b[1]))

\* a < b, false whenever an operand is NaN
Lt(a, b) ==
    /\ ~IsNaN(a) /\ ~IsNaN(b)
    /\ IF a[2] = 0 \/ b[2] = 0
       THEN (IF a[2] = 0 /\ b[2] = 0 THEN a[1] < b[1]
             ELSE IF a[2] = 0 THEN a[1] < 0 ELSE b[1] > 0)
       ELSE a[1] * b[2] < b[1] * a[2]

\* a === b, false whenever an operand is NaN
Eq(a, b) == ~IsNaN(a) /\ ~IsNaN(b) /\ a = b

Le(a, b) == Lt(a, b) \/ Eq(a, b)

\* `value || fallback`: 0 and NaN are falsy
OrElse(a, fallback) == IF a = N(0) \/ IsNaN(a) THEN fallback ELSE a

(***************************************************************************)
(* Geometry                                                                *)
(***************************************************************************)
\* Sizes is a record [content, viewport, scrollbar: [size, paddingStart,
\* paddingEnd], thumb], every field a number.
MkScrollbar(size, paddingStart, paddingEnd) ==
    [size |-> size, paddingStart |-> paddingStart, paddingEnd |-> paddingEnd]

WithThumb(sizes, thumbSizePx) ==
    [content |-> sizes.content, viewport |-> sizes.viewport,
     scrollbar |-> sizes.scrollbar, thumb |-> thumbSizePx]

\* linearScale(input, output)(value) of the number package
linearScale(input, output, value) ==
    IF Eq(input[1], input[2]) \/ Eq(output[1], output[2]) THEN output[1]
    ELSE LET ratio == Div(Sub(output[2], output[1]), Sub(input[2], input[1]))
         IN  Add(output[1], Mul(ratio, Sub(value, input[1])))

\* a variant that takes the ratio of the whole scrollbar, padding included
getThumbSizeOfBox(ratio, scrollbar) == Mul(scrollbar.size, ratio)

getThumbSizePx(ratio, scrollbar) ==
    LET scrollbarPadding == Add(scrollbar.paddingStart, scrollbar.paddingEnd)
    IN  Mul(Sub(scrollbar.size, scrollbarPadding), ratio)

\* a variant whose pointer range is as long as the padded track, thumb included
interpolateOverTrack(pointerPos, pointerOffset, sizes) ==
    LET minPointerPos == Add(sizes.scrollbar.paddingStart, pointerOffset)
        maxPointerPos == Add(Sub(sizes.scrollbar.size, sizes.scrollbar.paddingEnd),
                             pointerOffset)
        maxScrollPos == Sub(sizes.content, sizes.viewport)
    IN  linearScale(<<minPointerPos, maxPointerPos>>, <<N(0), maxScrollPos>>, pointerPos)

interpolateScrollPositionFromPointer(pointerPos, pointerOffset, sizes) ==
    LET thumbOffsetFromEnd == Sub(sizes.thumb, pointerOffset)
        minPointerPos == Add(sizes.scrollbar.paddingStart, pointerOffset)
        maxPointerPos == Sub(Sub(sizes.scrollbar.size, sizes.scrollbar.paddingEnd),
                             thumbOffsetFromEnd)
        maxScrollPos == Sub(sizes.content, sizes.viewport)
    IN  linearScale(<<minPointerPos, maxPointerPos>>, <<N(0), maxScrollPos>>, pointerPos)

interpolateThumbOffsetFromScroll(scrollPos, sizes) ==
    LET scrollbarPadding == Add(sizes.scrollbar.paddingStart, sizes.scrollbar.paddingEnd)
        scrollbar == Sub(sizes.scrollbar.size, scrollbarPadding)
        maxScrollPos == Sub(sizes.content, sizes.viewport)
        maxThumbPos == Sub(scrollbar, sizes.thumb)
    IN  linearScale(<<N(0), maxScrollPos>>, <<N(0), maxThumbPos>>, scrollPos)

(***************************************************************************)
(* Bounds of the model                                                     *)
(***************************************************************************)
\* how many times the environment changes a size in one behaviour
MaxResizes == 1

\* how many pointers can be over one scrollbar at a time
MaxPointers == 2

\* the longest step of the clock, and the value at which it stops counting
TickStep == 50

MaxClock == 800

Axes == {"horizontal", "vertical"}

Other(a) == IF a = "horizontal" THEN "vertical" ELSE "horizontal"

\* an absent value: a null ref, no pending timer, no assignment
Null == <<>>

ContentSizes == {1000, 1600}

ViewportSizes == {400, 700}

TrackSizes == {100, 160}

\* client positions <<clientX, clientY>> of pointer events
PointerPoints == {<<2, 32>>, <<32, 2>>}

\* <<deltaX, deltaY>> of wheel events
WheelDeltas == {<<-200, 400>>, <<400, -200>>}

\* offsets the user scrolls the viewport to (touch, keyboard, wheel over the content)
UserOffsets == {0, 200}

Policies == {"always", "auto", "hover", "scroll"}

VARIABLES
    focus,            \* the axis whose scrollbar the user operates in this behaviour
    type,             \* context.type, the visibility policy
    forceMount,       \* [axis -> BOOLEAN], the forceMount prop of each scrollbar
    sample,           \* the arguments and the results of the conversions applied on
                      \*  their own, Null where no arguments were drawn
    registered,       \* [axis -> [enter, leave : Nat]], how many pointerenter and
                      \*  pointerleave listeners of ScrollAreaScrollbarHover are
                      \*  registered on the scroll area
    viewportPending,  \* an entry of the ResizeObservers of the viewport is queued
    alive,            \* [axis -> BOOLEAN], the ScrollAreaScrollbar of the axis is in the tree
    unmountedInDrag,  \* [axis -> how the scrollbar last left the document while a drag
                      \*  session on it was active: "no", "hidden" or "removed"]
    scrollSize,       \* [axis -> Int], viewport.scrollWidth / scrollHeight
    offsetSize,       \* [axis -> Int], viewport.offsetWidth / offsetHeight
    clientSize,       \* [axis -> Int], scrollbar.clientWidth / clientHeight
    padding,          \* [axis -> <<start, end>>], computed padding of the scrollbar
    scrollOffset,     \* [axis -> number], viewport.scrollLeft / scrollTop
    scrollPending,    \* BOOLEAN, a native "scroll" event is queued on the viewport
    scrollbar,        \* [axis -> BOOLEAN], context.scrollbarX / scrollbarY is an element
    thumbRatio,       \* [axis -> number], the thumbRatio state
    effectContent,    \* [axis -> Null or <<Int>>], contentWidth the layout effect last ran with
    resizePending,    \* [axis -> BOOLEAN], a ResizeObserver entry of the thumb is queued
    transform,        \* [axis -> number], the translate3d offset in thumb.style.transform
    pointerOffsetRef, \* [axis -> number], pointerOffsetRef.current
    rectRef,          \* [axis -> Null or <<left, top>>], rectRef.current
    capture,          \* Null or <<axis, element>>: the thumb or track holding the pointer capture
    state,            \* [axis -> activity state], the state machine of the "scroll" policy
    hideTimer,        \* [axis -> Null or <<remaining time>>], the pending hide timeout
    debounceTimer,    \* [axis -> Null or <<remaining time>>], the pending debounced SCROLL_END
    prevScrollPos,    \* [axis -> number], prevScrollPos of handleScroll
    visible,          \* [axis -> BOOLEAN], the visible state of the auto and hover policies
    over,             \* [axis -> Nat], how many pointers are over the scrollbar element
    sinceScroll,      \* time since handleScroll of the focus axis last sent SCROLL
    lastInput,        \* the latest event sent to the machine of the focus axis by the user
    resizes,          \* how many size changes the environment has made
    defaultPrevented  \* BOOLEAN, the latest wheel event had preventDefault() called

domVars == <<scrollSize, offsetSize, clientSize, padding>>

dragVars == <<pointerOffsetRef, rectRef, capture>>

activityVars == <<state, hideTimer, debounceTimer, prevScrollPos, over>>

clockVars == <<sinceScroll, lastInput>>

vars == <<focus, type, forceMount, sample, registered, viewportPending, alive, unmountedInDrag, scrollSize, offsetSize,
          clientSize, padding, scrollOffset,
          scrollPending, scrollbar, thumbRatio, effectContent, resizePending,
          transform, pointerOffsetRef, rectRef, capture, state, hideTimer,
          debounceTimer, prevScrollPos, visible, over, sinceScroll, lastInput, resizes,
          defaultPrevented>>

NoWrite == [a \in Axes |-> Null]

(***************************************************************************)
(* The native scrollable region                                            *)
(***************************************************************************)
MaxScroll(a) == scrollSize[a] - offsetSize[a]

\* the offset the region keeps when v is assigned to scrollLeft / scrollTop
ClampScroll(v, max) ==
    IF IsNaN(v) \/ Lt(v, N(0)) THEN N(0)
    ELSE IF Lt(N(max), v) THEN N(max)
    ELSE v

\* offsets after the callback assigned wrote[a] (Null: no assignment) to each axis
OffsetsAfter(wrote) ==
    [a \in Axes |-> IF wrote[a] = Null THEN scrollOffset[a]
                    ELSE ClampScroll(wrote[a], MaxScroll(a))]

\* the box of the scrollbar is content-box (the CSS default): its computed
\* width / height is the client size less the padding
ComputedLength(a) == clientSize[a] - padding[a][1] - padding[a][2]

\* the thumb is laid out at thumbSizePct % of the scrollbar's content box
ThumbLength(a, ratio, client) ==
    Mul(N(client - padding[a][1] - padding[a][2]), ratio)

(***************************************************************************)
(* ScrollAreaScrollbarVisible and ScrollAreaScrollbarX / Y                 *)
(***************************************************************************)
toInt(px) == N(px)

getScrollbarSizes(a) ==
    IF scrollbar[a]
    THEN MkScrollbar(N(clientSize[a]), toInt(padding[a][1]), toInt(padding[a][2]))
    ELSE MkScrollbar(N(0), N(0), N(0))

\* the sizes ScrollAreaScrollbarX / Y read from the DOM for a callback
AxisSizes(a) ==
    [content |-> N(scrollSize[a]), viewport |-> N(offsetSize[a]),
     scrollbar |-> getScrollbarSizes(a)]

\* pointerOffsetCurrent is pointerOffsetRef.current when the callback runs
getScrollPositionFromPointer(a, pointerOffsetCurrent, pointerPos, sizes) ==
    LET thumbSizePx == getThumbSizePx(thumbRatio[a], sizes.scrollbar)
        pointerOffset == OrElse(pointerOffsetCurrent, Div(thumbSizePx, N(2)))
    IN  interpolateScrollPositionFromPointer(pointerPos, pointerOffset,
                                             WithThumb(sizes, thumbSizePx))

\* a variant that runs the thumb from the end of the track to its start
getThumbOffsetFromEnd(a, scrollPos, sizes) ==
    LET thumbSizePx == getThumbSizePx(thumbRatio[a], sizes.scrollbar)
        full == interpolateThumbOffsetFromScroll(Sub(sizes.content, sizes.viewport),
                                                 WithThumb(sizes, thumbSizePx))
    IN  Sub(full, interpolateThumbOffsetFromScroll(scrollPos, WithThumb(sizes, thumbSizePx)))

getThumbOffsetFromScroll(a, scrollPos, sizes) ==
    LET thumbSizePx == getThumbSizePx(thumbRatio[a], sizes.scrollbar)
    IN  interpolateThumbOffsetFromScroll(scrollPos, WithThumb(sizes, thumbSizePx))

\* a variant that also suppresses the default action at both ends of the range
preventPageScrollAtEnds(scrollPos, maxScrollPos) ==
    Le(N(0), scrollPos) /\ Le(scrollPos, maxScrollPos)

preventPageScrollOnWheel(scrollPos, maxScrollPos) ==
    Lt(N(0), scrollPos) /\ Lt(scrollPos, maxScrollPos)

\* onThumbPositionChange of the scrollbar context: the offset it renders
onThumbPositionChange(a) ==
    IF scrollbar[a]
    THEN getThumbOffsetFromScroll(a, scrollOffset[a], AxisSizes(a))
    ELSE transform[a]

\* the ratio the layout effect of ScrollAreaScrollbarX / Y computes
LayoutRatio(a) == Div(toInt(ComputedLength(a)), N(scrollSize[a]))

(***************************************************************************)
(* The activity state machine of ScrollAreaScrollbarScroll                 *)
(***************************************************************************)
ScrollHideDelay == 600

ScrollEndWait == 100

\* variants of the transition table: hidden ignores a pointer entering the
\* scrollbar; interacting ends with SCROLL_END; scrolling ends in hidden; idle
\* ignores HIDE
machineHiddenIgnoresPointer ==
    [idle |-> [HIDE |-> "hidden", SCROLL |-> "scrolling",
               SCROLLBAR_POINTER_ENTER |-> "interacting"],
     hidden |-> [SCROLL |-> "scrolling"],
     scrolling |-> [SCROLL_END |-> "idle", SCROLLBAR_POINTER_ENTER |-> "interacting"],
     interacting |-> [SCROLL |-> "interacting", SCROLLBAR_POINTER_LEAVE |-> "idle"]]

machineScrollEndReleases ==
    [idle |-> [HIDE |-> "hidden", SCROLL |-> "scrolling",
               SCROLLBAR_POINTER_ENTER |-> "interacting"],
     hidden |-> [SCROLL |-> "scrolling", SCROLLBAR_POINTER_ENTER |-> "interacting"],
     scrolling |-> [SCROLL_END |-> "idle", SCROLLBAR_POINTER_ENTER |-> "interacting"],
     interacting |-> [SCROLL |-> "interacting", SCROLL_END |-> "idle",
                      SCROLLBAR_POINTER_LEAVE |-> "idle"]]

machineSkipsIdle ==
    [idle |-> [HIDE |-> "hidden", SCROLL |-> "scrolling",
               SCROLLBAR_POINTER_ENTER |-> "interacting"],
     hidden |-> [SCROLL |-> "scrolling", SCROLLBAR_POINTER_ENTER |-> "interacting"],
     scrolling |-> [SCROLL_END |-> "hidden", SCROLLBAR_POINTER_ENTER |-> "interacting"],
     interacting |-> [SCROLL |-> "interacting", SCROLLBAR_POINTER_LEAVE |-> "idle"]]

machineKeepsIdle ==
    [idle |-> [SCROLL |-> "scrolling", SCROLLBAR_POINTER_ENTER |-> "interacting"],
     hidden |-> [SCROLL |-> "scrolling", SCROLLBAR_POINTER_ENTER |-> "interacting"],
     scrolling |-> [SCROLL_END |-> "idle", SCROLLBAR_POINTER_ENTER |-> "interacting"],
     interacting |-> [SCROLL |-> "interacting", SCROLLBAR_POINTER_LEAVE |-> "idle"]]

machine ==
    [idle |-> [HIDE |-> "hidden", SCROLL |-> "scrolling",
               SCROLLBAR_POINTER_ENTER |-> "interacting"],
     hidden |-> [SCROLL |-> "scrolling", SCROLLBAR_POINTER_ENTER |-> "interacting"],
     scrolling |-> [SCROLL_END |-> "idle", SCROLLBAR_POINTER_ENTER |-> "interacting"],
     interacting |-> [SCROLL |-> "interacting", SCROLLBAR_POINTER_LEAVE |-> "idle"]]

\* the reducer of useStateMachine: an event the state does not list changes nothing
useStateMachine(s, event) ==
    IF event \in DOMAIN machine[s] THEN machine[s][event] ELSE s

\* Presence keeps its child mounted exactly while `present` (no exit animation)
Presence(present) == present

\* a variant that is present only while the scrollbar is in use
ScrollPresentInUse(a, s) == forceMount[a] \/ s \in {"scrolling", "interacting"}

\* the `present` prop the scrollbar of axis a gets under each policy
ScrollPresent(a, s) == forceMount[a] \/ s # "hidden"

OptionalPresent(a, vis) == forceMount[a] \/ vis

\* whether ScrollAreaScrollbar renders the scrollbar element of axis a
Mounted(a, s, vis) ==
    /\ alive[a]
    /\ CASE type = "always" -> TRUE
         [] type = "scroll" -> Presence(ScrollPresent(a, s))
         [] type \in {"auto", "hover"} -> Presence(OptionalPresent(a, vis))
         [] OTHER -> FALSE

\* a variant whose effect has no cleanup: a pending timeout outlives idle
HideTimerKept(a, s2, timer) ==
    IF s2 # state[a] /\ s2 = "idle" THEN <<ScrollHideDelay>> ELSE timer

\* the hide timeout after the effect on [state] ran for a change of the state
\* to s2: the cleanup clears the pending timeout `timer`, and idle sets one
HideTimerAfter(a, s2, timer) ==
    IF s2 = state[a] THEN timer
    ELSE IF s2 = "idle" THEN <<ScrollHideDelay>>
    ELSE Null

(***************************************************************************)
(* One commit: the callback left the refs, the thumb style and the queue   *)
(* of the thumb's ResizeObserver as the record r and set the activity      *)
(* states to s2 and the visible states to vis2; every scrollbar whose      *)
(* state changed, and those in `explicit`, re-render, mount or unmount,    *)
(* and run their effects.                                                  *)
(***************************************************************************)
\* a drag session is active on axis a: a pointerdown with the main button
\* recorded the rectangle of the track and took the pointer capture
SessionActive(a) == rectRef[a] # Null /\ capture # Null

\* a variant in which a ref outlives the component that owns it
useRefKept(kept, current, initial) == current

\* a ref of a scrollbar after a commit: React.useRef(initial) starts over when
\* the scrollbar was not mounted throughout
useRef(kept, current, initial) == IF kept THEN current ELSE initial

\* the pointer capture after a commit: an element removed from the document
\* loses its capture
CaptureAfter(held, kept) == IF held # Null /\ ~kept[held[1]] THEN Null ELSE held

Refs ==
    [transform |-> transform, pointerOffsetRef |-> pointerOffsetRef,
     rectRef |-> rectRef, capture |-> capture, resizePending |-> resizePending,
     hideTimer |-> hideTimer, over |-> over]

Commit(explicit, s2, vis2, r) ==
    LET rendered(a) == a \in explicit \/ s2[a] # state[a] \/ vis2[a] # visible[a]
        m2 == [a \in Axes |-> IF rendered(a) THEN Mounted(a, s2[a], vis2[a])
                              ELSE scrollbar[a]]
        kept(a) == m2[a] /\ scrollbar[a]
        ratio == [a \in Axes |->
                    IF ~m2[a] THEN N(0)
                    ELSE IF rendered(a) /\ (~scrollbar[a] \/ effectContent[a] # <<scrollSize[a]>>)
                    THEN LayoutRatio(a)
                    ELSE thumbRatio[a]]
    IN  /\ state' = s2
        /\ visible' = vis2
        /\ scrollbar' = m2
        /\ unmountedInDrag' = [a \in Axes |->
                                 IF m2[a] THEN "no"
                                 ELSE IF scrollbar[a] /\ SessionActive(a) THEN "hidden"
                                 ELSE unmountedInDrag[a]]
        /\ capture' = CaptureAfter(r.capture, [a \in Axes |-> kept(a)])
        /\ rectRef' = [a \in Axes |-> useRef(kept(a), r.rectRef[a], Null)]
        /\ pointerOffsetRef' =
             [a \in Axes |-> useRef(kept(a), r.pointerOffsetRef[a], N(0))]
        /\ transform' = [a \in Axes |-> IF kept(a) THEN r.transform[a] ELSE N(0)]
        /\ hideTimer' = [a \in Axes |-> HideTimerAfter(a, s2[a], r.hideTimer[a])]
        /\ over' = [a \in Axes |-> IF m2[a] THEN r.over[a] ELSE 0]
        /\ thumbRatio' = ratio
        /\ effectContent' = [a \in Axes |->
                               IF ~m2[a] THEN Null
                               ELSE IF rendered(a) THEN <<scrollSize[a]>>
                               ELSE effectContent[a]]
        /\ resizePending' = [a \in Axes |->
                               IF ~m2[a] THEN FALSE
                               ELSE IF ~scrollbar[a] THEN TRUE
                               ELSE \/ r.resizePending[a]
                                    \/ ThumbLength(a, ratio[a], clientSize[a])
                                         # ThumbLength(a, thumbRatio[a], clientSize[a])]

\* a variant in which every callback re-renders both scrollbars
RenderBoth(r) == Commit(Axes, state, visible, r)

\* a callback that sets no React state
NoRender(r) == Commit({}, state, visible, r)

(***************************************************************************)
(* Initial state: the region is mounted with content 1000, viewport 400    *)
(* and track 100 along both axes and is scrolled to the origin.            *)
(***************************************************************************)
Paddings == {<<0, 0>>}

NoListeners == [enter |-> 0, leave |-> 0]

\* the effect of ScrollAreaScrollbarHover ran: it added handlePointerEnter for
\* 'pointerenter' and handlePointerLeave for 'pointerleave'
Subscribed(l) == [enter |-> l.enter + 1, leave |-> l.leave + 1]

\* the cleanup of that effect ran: it removes handlePointerEnter for 'mouseover',
\* for which it was never added, and handlePointerLeave for 'pointerleave'
Unsubscribed(l) == [enter |-> l.enter, leave |-> l.leave - 1]

InitWith(types) ==
    /\ focus \in Axes
    /\ type \in types
    /\ forceMount \in [Axes -> BOOLEAN]
    /\ type = "always" => forceMount = [a \in Axes |-> FALSE]
    /\ sample = Null
    /\ registered = [a \in Axes |-> IF type = "hover" THEN Subscribed(NoListeners)
                                     ELSE NoListeners]
    /\ viewportPending = (type = "auto")
    /\ alive = [a \in Axes |-> TRUE]
    /\ unmountedInDrag = [a \in Axes |-> "no"]
    /\ scrollSize = [a \in Axes |-> 1000]
    /\ offsetSize = [a \in Axes |-> 400]
    /\ clientSize = [a \in Axes |-> 100]
    /\ \E p \in Paddings : padding = [a \in Axes |-> p]
    /\ scrollOffset = [a \in Axes |-> N(0)]
    /\ scrollPending = FALSE
    /\ state = [a \in Axes |-> "hidden"]
    /\ visible = [a \in Axes |-> FALSE]
    /\ hideTimer = [a \in Axes |-> Null]
    /\ debounceTimer = [a \in Axes |-> Null]
    /\ prevScrollPos = [a \in Axes |-> N(0)]
    /\ over = [a \in Axes |-> 0]
    /\ sinceScroll = MaxClock
    /\ lastInput = "none"
    /\ scrollbar = [a \in Axes |-> Mounted(a, "hidden", FALSE)]
    /\ thumbRatio = [a \in Axes |-> IF scrollbar[a] THEN LayoutRatio(a) ELSE N(0)]
    /\ effectContent = [a \in Axes |-> IF scrollbar[a] THEN <<scrollSize[a]>> ELSE Null]
    /\ resizePending = scrollbar
    /\ transform = [a \in Axes |-> N(0)]
    /\ pointerOffsetRef = [a \in Axes |-> N(0)]
    /\ rectRef = [a \in Axes |-> Null]
    /\ capture = Null
    /\ resizes = 0
    /\ defaultPrevented = FALSE

(***************************************************************************)
(* The environment: native scrolling and size changes                      *)
(***************************************************************************)
\* the user scrolls the viewport itself along axis a (touch, keyboard, wheel)
UserScroll(a, v) ==
    /\ v <= MaxScroll(a)
    /\ N(v) # scrollOffset[a]
    /\ scrollOffset' = [scrollOffset EXCEPT ![a] = N(v)]
    /\ scrollPending' = TRUE
    /\ UNCHANGED <<focus, type, forceMount, sample, registered, viewportPending, alive, unmountedInDrag, domVars,
                   scrollbar, thumbRatio,
                   effectContent, resizePending, transform, dragVars, activityVars,
                   visible, resizes, defaultPrevented, clockVars>>

\* the region clamps the offsets when a size change lowers the maximum
Reclamp(a, content, viewport) ==
    LET clamped == ClampScroll(scrollOffset[a], content - viewport)
    IN  /\ scrollOffset' = [scrollOffset EXCEPT ![a] = clamped]
        /\ scrollPending' = (scrollPending \/ clamped # scrollOffset[a])

ContentResize(a, c) ==
    /\ resizes < MaxResizes
    /\ c # scrollSize[a] /\ c >= offsetSize[a]
    /\ scrollSize' = [scrollSize EXCEPT ![a] = c]
    /\ Reclamp(a, c, offsetSize[a])
    /\ resizes' = resizes + 1
    /\ UNCHANGED <<focus, type, forceMount, sample, registered, viewportPending, alive, unmountedInDrag, offsetSize,
                   clientSize, padding, scrollbar,
                   thumbRatio, effectContent, resizePending, transform, dragVars,
                   activityVars, visible, defaultPrevented, clockVars>>

ViewportResize(a, v) ==
    /\ resizes < MaxResizes
    /\ v # offsetSize[a] /\ v <= scrollSize[a]
    /\ offsetSize' = [offsetSize EXCEPT ![a] = v]
    /\ Reclamp(a, scrollSize[a], v)
    /\ resizes' = resizes + 1
    /\ viewportPending' = (viewportPending \/ type = "auto")
    /\ UNCHANGED <<focus, type, forceMount, sample, registered, alive, unmountedInDrag, scrollSize,
                   clientSize, padding, scrollbar,
                   thumbRatio, effectContent, resizePending, transform, dragVars,
                   activityVars, visible, defaultPrevented, clockVars>>

\* the track changes size: the thumb, a percentage of it, changes size with it
TrackResize(a, t) ==
    /\ resizes < MaxResizes
    /\ t # clientSize[a]
    /\ clientSize' = [clientSize EXCEPT ![a] = t]
    /\ resizePending' = [resizePending EXCEPT ![a] =
                           \/ resizePending[a]
                           \/ /\ scrollbar[a]
                              /\ ThumbLength(a, thumbRatio[a], t)
                                   # ThumbLength(a, thumbRatio[a], clientSize[a])]
    /\ resizes' = resizes + 1
    /\ UNCHANGED <<focus, type, forceMount, sample, registered, viewportPending, alive, unmountedInDrag, scrollSize,
                   offsetSize, padding,
                   scrollOffset, scrollPending, scrollbar, thumbRatio, effectContent,
                   transform, dragVars, activityVars, visible, defaultPrevented,
                   clockVars>>

(***************************************************************************)
(* Callbacks                                                               *)
(***************************************************************************)
\* the callback assigned wrote[a] to scrollLeft / scrollTop: the region applies
\* it and queues a scroll event when an offset changed
Assign(wrote) ==
    /\ scrollOffset' = OffsetsAfter(wrote)
    /\ scrollPending' = (scrollPending \/ OffsetsAfter(wrote) # scrollOffset)

\* the scrollbar of axis a re-renders (its parent re-rendered) after the content
\* size changed: the layout effect of ScrollAreaScrollbarX / Y runs again
Render(a) ==
    /\ scrollbar[a]
    /\ effectContent[a] # <<scrollSize[a]>>
    /\ Commit({a}, state, visible, Refs)
    /\ UNCHANGED <<focus, type, forceMount, sample, registered, viewportPending, alive, domVars, scrollOffset,
                   scrollPending,
                   debounceTimer, prevScrollPos, resizes, defaultPrevented, clockVars>>

\* a variant that compares the scroll offsets of both axes
handleScrollOfAnyAxis(a) == alive[a] /\ type = "scroll" /\ prevScrollPos # scrollOffset

\* handleScroll of ScrollAreaScrollbarScroll sends SCROLL and calls debounceScrollEnd
handleScroll(a) == alive[a] /\ type = "scroll" /\ prevScrollPos[a] # scrollOffset[a]

\* a variant that throttles: a call while the wait is pending does not restart it
throttleScrollEnd(a, called) ==
    IF called /\ debounceTimer[a] = Null THEN <<ScrollEndWait>> ELSE debounceTimer[a]

\* the debounced SCROLL_END of axis a after handleScroll ran: a call restarts
\* the wait
debounceScrollEnd(a, called) ==
    IF called THEN <<ScrollEndWait>> ELSE debounceTimer[a]

\* a variant whose scroll listener scrolls the viewport back to the origin
scrollListenersReset(a) == N(0)

\* what the listeners of the viewport's scroll event assign to scrollLeft / scrollTop
scrollListenersWrite(a) == Null

\* the native scroll event: the listener of every mounted thumb and the
\* handleScroll of every axis run
ScrollEvent ==
    /\ scrollPending
    /\ LET wrote == [a \in Axes |-> scrollListenersWrite(a)]
       IN  /\ scrollOffset' = OffsetsAfter(wrote)
           /\ scrollPending' = (OffsetsAfter(wrote) # scrollOffset)
    /\ Commit({},
              [a \in Axes |-> IF handleScroll(a) THEN useStateMachine(state[a], "SCROLL")
                              ELSE state[a]],
              visible,
              [Refs EXCEPT !.transform = [a \in Axes |-> onThumbPositionChange(a)]])
    /\ debounceTimer' = [a \in Axes |-> debounceScrollEnd(a, handleScroll(a))]
    /\ sinceScroll' = IF handleScroll(focus) THEN 0 ELSE sinceScroll
    /\ lastInput' = IF handleScroll(focus) THEN "scroll" ELSE lastInput
    /\ prevScrollPos' = [a \in Axes |-> IF alive[a] /\ type = "scroll" THEN scrollOffset[a]
                                        ELSE prevScrollPos[a]]
    /\ UNCHANGED <<focus, type, forceMount, sample, registered, viewportPending, alive, domVars, resizes,
                   defaultPrevented>>

\* the ResizeObserver of the thumb of axis a calls onThumbPositionChange
ThumbResize(a) ==
    /\ resizePending[a]
    /\ UNCHANGED <<focus, type, forceMount, sample, registered, viewportPending, alive, domVars, scrollOffset,
                   scrollPending,
                   debounceTimer, prevScrollPos, resizes, defaultPrevented, clockVars>>
    /\ NoRender([Refs EXCEPT !.transform[a] = onThumbPositionChange(a),
                             !.resizePending[a] = FALSE])

(***************************************************************************)
(* Wheel interceptor                                                       *)
(***************************************************************************)
\* a variant that assigns the position to both axes
onWheelScrollBoth(a, scrollPos) == [b \in Axes |-> scrollPos]

\* onWheelScroll of ScrollAreaScrollbarVisible: what it assigns
onWheelScroll(a, scrollPos) == [b \in Axes |-> IF b = a THEN scrollPos ELSE Null]

\* a wheel event on the document; target is the axis whose scrollbar contains
\* the event target, or "outside"
Wheel(target, deltaX, deltaY) ==
    /\ target \in Axes => scrollbar[target]
    /\ UNCHANGED <<focus, type, forceMount, sample, registered, viewportPending, alive, unmountedInDrag, domVars,
                   scrollbar, thumbRatio,
                   effectContent, resizePending, transform, dragVars, activityVars,
                   visible, resizes, clockVars>>
    /\ IF target \in Axes
       THEN LET delta == IF target = "horizontal" THEN deltaX ELSE deltaY
                scrollPos == Add(scrollOffset[target], N(delta))
                maxScrollPos == N(scrollSize[target] - offsetSize[target])
            IN  /\ Assign(onWheelScroll(target, scrollPos))
                /\ defaultPrevented' = preventPageScrollOnWheel(scrollPos, maxScrollPos)
       ELSE /\ Assign(NoWrite)
            /\ defaultPrevented' = FALSE

(***************************************************************************)
(* Drag session                                                            *)
(***************************************************************************)
MAIN_POINTER == 0

Buttons == {MAIN_POINTER, 2}

\* getBoundingClientRect() of a scrollbar: <<left, top>>, the origin of the
\* client coordinates along its own axis
TrackRect(a) == <<0, 0>>

\* the leading edge and the length of the thumb along axis a, in client coordinates
ThumbStart(a) ==
    Add(N(TrackRect(a)[IF a = "horizontal" THEN 1 ELSE 2] + padding[a][1]), transform[a])

ThumbLen(a) == ThumbLength(a, thumbRatio[a], clientSize[a])

OverThumb(a, x, y) ==
    LET c == N(IF a = "horizontal" THEN x ELSE y)
    IN  /\ Lt(N(0), ThumbLen(a))
        /\ Le(ThumbStart(a), c)
        /\ Le(c, Add(ThumbStart(a), ThumbLen(a)))

\* onPointerDownCapture of ScrollAreaThumb, then onThumbPointerDown: the new
\* pointerOffsetRef.current
onThumbPointerDown(a, x, y) ==
    Sub(N(IF a = "horizontal" THEN x ELSE y), ThumbStart(a))

\* onDragScroll of ScrollAreaScrollbarX / Y and of ScrollAreaScrollbarVisible:
\* what it assigns for the pointer position <<x, y>> relative to the track
onDragScroll(a, pointerOffsetCurrent, pointerPosition) ==
    [b \in Axes |->
        IF b = a
        THEN getScrollPositionFromPointer(
                 a, pointerOffsetCurrent,
                 N(pointerPosition[IF a = "horizontal" THEN 1 ELSE 2]), AxisSizes(a))
        ELSE Null]

\* handleDragScroll of ScrollAreaScrollbarImpl with rectRef.current = rect
handleDragScroll(a, rect, pointerOffsetCurrent, x, y) ==
    IF rect # Null
    THEN onDragScroll(a, pointerOffsetCurrent, <<x - rect[1], y - rect[2]>>)
    ELSE NoWrite

\* pointerdown on the thumb or on the track of axis a
PointerDown(a, el, button, x, y) ==
    /\ scrollbar[a]
    /\ (el = "thumb") = OverThumb(a, x, y)
    /\ UNCHANGED <<focus, type, forceMount, sample, registered, viewportPending, alive, domVars, debounceTimer,
                   prevScrollPos,
                   resizes, defaultPrevented, clockVars>>
    /\ LET po == IF el = "thumb"
                 THEN [pointerOffsetRef EXCEPT ![a] = onThumbPointerDown(a, x, y)]
                 ELSE pointerOffsetRef
           main == button = MAIN_POINTER
           rr == IF main THEN [rectRef EXCEPT ![a] = TrackRect(a)] ELSE rectRef
           wrote == IF main THEN handleDragScroll(a, rr[a], po[a], x, y) ELSE NoWrite
       IN  /\ NoRender([Refs EXCEPT !.pointerOffsetRef = po, !.rectRef = rr,
                                    !.capture = IF main THEN <<a, el>> ELSE capture])
           /\ Assign(wrote)

\* pointermove delivered to the scrollbar of axis a: the pointer is over it, or
\* captured by one of its elements
PointerMove(a, x, y) ==
    /\ scrollbar[a]
    /\ IF capture = Null THEN TRUE ELSE capture[1] = a
    /\ UNCHANGED <<focus, type, forceMount, sample, registered, viewportPending, alive, unmountedInDrag, domVars,
                   scrollbar, thumbRatio,
                   effectContent, resizePending, transform, dragVars, activityVars,
                   visible, resizes, defaultPrevented, clockVars>>
    /\ LET wrote == handleDragScroll(a, rectRef[a], pointerOffsetRef[a], x, y)
       IN  Assign(wrote)

\* pointerup on the thumb or the track of axis a: on the capturing element, or
\* on the one under the pointer when nothing is captured
PointerUp(a, el) ==
    /\ scrollbar[a]
    /\ capture \in {Null, <<a, el>>}
    /\ UNCHANGED <<focus, type, forceMount, sample, registered, viewportPending, alive, domVars, scrollOffset,
                   scrollPending,
                   debounceTimer, prevScrollPos, resizes, defaultPrevented, clockVars>>
    /\ NoRender([Refs EXCEPT !.pointerOffsetRef[a] = IF el = "thumb" THEN N(0) ELSE @,
                             !.rectRef[a] = Null,
                             !.capture = Null])

(***************************************************************************)
(* The synchronisation engine under the "always" policy                    *)
(***************************************************************************)
Init == InitWith({"always"})

Next ==
    \/ \E a \in Axes, v \in UserOffsets : UserScroll(a, v)
    \/ ScrollEvent
    \/ \E a \in Axes : ThumbResize(a)
    \/ \E t \in {focus, "outside"}, d \in WheelDeltas : Wheel(t, d[1], d[2])
    \/ \E el \in {"thumb", "track"}, b \in Buttons, p \in PointerPoints :
          PointerDown(focus, el, b, p[1], p[2])
    \/ \E p \in PointerPoints : PointerMove(focus, p[1], p[2])
    \/ \E el \in {"thumb", "track"} : PointerUp(focus, el)

Spec == Init /\ [][Next]_vars

(***************************************************************************)
(* The same engine while the environment changes the sizes of the content, *)
(* the viewport and the track                                              *)
(***************************************************************************)
NextResize ==
    \/ \E c \in ContentSizes : ContentResize(focus, c)
    \/ \E v \in ViewportSizes : ViewportResize(focus, v)
    \/ \E t \in TrackSizes : TrackResize(focus, t)
    \/ Render(focus)
    \/ \E v \in UserOffsets : UserScroll(focus, v)
    \/ ScrollEvent
    \/ \E a \in Axes : ThumbResize(a)
    \/ \E d \in WheelDeltas : Wheel(focus, d[1], d[2])
    \/ \E p \in PointerPoints : PointerDown(focus, "track", MAIN_POINTER, p[1], p[2])
    \/ \E p \in PointerPoints : PointerMove(focus, p[1], p[2])
    \/ PointerUp(focus, "track")

SpecResize == Init /\ [][NextResize]_vars

(***************************************************************************)
(* The "scroll" policy: pointer events on the scrollbar, timers and time   *)
(***************************************************************************)
\* onPointerEnter of the scrollbar of axis a
PointerEnter(a) ==
    /\ scrollbar[a]
    /\ over[a] < MaxPointers
    /\ Commit({}, [state EXCEPT ![a] = useStateMachine(@, "SCROLLBAR_POINTER_ENTER")],
              visible, [Refs EXCEPT !.over[a] = @ + 1])
    /\ lastInput' = IF a = focus THEN "enter" ELSE lastInput
    /\ UNCHANGED <<focus, type, forceMount, sample, registered, viewportPending, alive, domVars, scrollOffset,
                   scrollPending,
                   debounceTimer, prevScrollPos, sinceScroll, resizes,
                   defaultPrevented>>

\* onPointerLeave of the scrollbar of axis a
PointerLeave(a) ==
    /\ scrollbar[a]
    /\ over[a] > 0
    /\ Commit({}, [state EXCEPT ![a] = useStateMachine(@, "SCROLLBAR_POINTER_LEAVE")],
              visible, [Refs EXCEPT !.over[a] = @ - 1])
    /\ lastInput' = IF a = focus THEN "leave" ELSE lastInput
    /\ UNCHANGED <<focus, type, forceMount, sample, registered, viewportPending, alive, domVars, scrollOffset,
                   scrollPending,
                   debounceTimer, prevScrollPos, sinceScroll, resizes,
                   defaultPrevented>>

\* the ScrollAreaScrollbar of axis a leaves the tree (the consumer stops
\* rendering it, or the whole ScrollArea unmounts): the cleanups of its effects
\* run, its state and refs are gone and its elements leave the document.  The
\* debounced SCROLL_END is not cancelled by any cleanup.
Teardown(a) ==
    /\ alive[a]
    /\ alive' = [alive EXCEPT ![a] = FALSE]
    /\ registered' = [registered EXCEPT
                        ![a] = IF type = "hover" THEN Unsubscribed(@) ELSE @]
    /\ scrollbar' = [scrollbar EXCEPT ![a] = FALSE]
    /\ unmountedInDrag' = [unmountedInDrag EXCEPT
                             ![a] = IF scrollbar[a] /\ SessionActive(a) THEN "removed" ELSE @]
    /\ hideTimer' = [hideTimer EXCEPT ![a] = Null]
    /\ over' = [over EXCEPT ![a] = 0]
    /\ thumbRatio' = [thumbRatio EXCEPT ![a] = N(0)]
    /\ effectContent' = [effectContent EXCEPT ![a] = Null]
    /\ resizePending' = [resizePending EXCEPT ![a] = FALSE]
    /\ transform' = [transform EXCEPT ![a] = N(0)]
    /\ capture' = CaptureAfter(capture, [b \in Axes |-> b # a])
    /\ rectRef' = [rectRef EXCEPT ![a] = useRef(FALSE, @, Null)]
    /\ pointerOffsetRef' = [pointerOffsetRef EXCEPT ![a] = useRef(FALSE, @, N(0))]
    /\ UNCHANGED <<focus, type, forceMount, sample, viewportPending, domVars, scrollOffset, scrollPending,
                   state,
                   visible, debounceTimer, prevScrollPos, clockVars, resizes,
                   defaultPrevented>>

\* the hide timeout of axis a is due: it sends HIDE
HideTimeout(a) ==
    /\ hideTimer[a] = <<0>>
    /\ Commit({}, [state EXCEPT ![a] = useStateMachine(@, "HIDE")], visible,
              [Refs EXCEPT !.hideTimer[a] = Null])
    /\ UNCHANGED <<focus, type, forceMount, sample, registered, viewportPending, alive, domVars, scrollOffset,
                   scrollPending,
                   debounceTimer, prevScrollPos, clockVars, resizes, defaultPrevented>>

\* the debounced callback of axis a is due: it sends SCROLL_END
ScrollEndTimeout(a) ==
    /\ debounceTimer[a] = <<0>>
    /\ debounceTimer' = [debounceTimer EXCEPT ![a] = Null]
    /\ Commit({}, [state EXCEPT ![a] = IF alive[a] THEN useStateMachine(@, "SCROLL_END")
                                      ELSE @],
              visible, Refs)
    /\ UNCHANGED <<focus, type, forceMount, sample, registered, viewportPending, alive, domVars, scrollOffset,
                   scrollPending,
                   prevScrollPos, clockVars, resizes, defaultPrevented>>

Min(i, j) == IF i < j THEN i ELSE j

\* the time until the next timer is due, at most TickStep
TimeStep ==
    LET pending == {hideTimer[a][1] : a \in {b \in Axes : hideTimer[b] # Null}}
                     \cup {debounceTimer[a][1] : a \in {b \in Axes : debounceTimer[b] # Null}}
    IN  IF pending = {} THEN TickStep
        ELSE Min(TickStep, CHOOSE t \in pending : \A u \in pending : t <= u)

After(timer, d) == IF timer = Null THEN Null ELSE <<timer[1] - d>>

\* time passes, up to the moment the next timer is due
Tick ==
    /\ TimeStep > 0
    /\ hideTimer # [a \in Axes |-> Null] \/ debounceTimer # [a \in Axes |-> Null]
         \/ sinceScroll < MaxClock
    /\ hideTimer' = [a \in Axes |-> After(hideTimer[a], TimeStep)]
    /\ debounceTimer' = [a \in Axes |-> After(debounceTimer[a], TimeStep)]
    /\ sinceScroll' = Min(sinceScroll + TimeStep, MaxClock)
    /\ UNCHANGED <<focus, type, forceMount, sample, registered, viewportPending, alive, unmountedInDrag, domVars,
                   scrollOffset, scrollPending,
                   scrollbar, thumbRatio, effectContent, resizePending, transform,
                   dragVars, state, prevScrollPos, over, visible, lastInput, resizes,
                   defaultPrevented>>

\* time passes until the next pending timer is due
Elapse ==
    LET pending == {hideTimer[a][1] : a \in {b \in Axes : hideTimer[b] # Null}}
                     \cup {debounceTimer[a][1] : a \in {b \in Axes : debounceTimer[b] # Null}}
        d == CHOOSE t \in pending : \A u \in pending : t <= u
    IN  /\ pending # {}
        /\ d > 0
        /\ hideTimer' = [a \in Axes |-> After(hideTimer[a], d)]
        /\ debounceTimer' = [a \in Axes |-> After(debounceTimer[a], d)]
        /\ sinceScroll' = Min(sinceScroll + d, MaxClock)
        /\ UNCHANGED <<focus, type, forceMount, sample, registered, viewportPending, alive, unmountedInDrag, domVars,
                       scrollOffset,
                       scrollPending, scrollbar, thumbRatio, effectContent,
                       resizePending, transform, dragVars, state, prevScrollPos, over,
                       visible, lastInput, resizes, defaultPrevented>>

InitActivity == InitWith({"scroll"})

NextActivity ==
    \/ \E v \in UserOffsets : UserScroll(focus, v)
    \/ ScrollEvent
    \/ \E a \in Axes : ThumbResize(a)
    \/ PointerEnter(focus)
    \/ PointerLeave(focus)
    \/ \E a \in Axes : HideTimeout(a)
    \/ \E a \in Axes : ScrollEndTimeout(a)
    \/ Tick

SpecActivity == InitActivity /\ [][NextActivity]_vars

(***************************************************************************)
(* Properties of the synchronisation engine                                *)
(***************************************************************************)
\* a pointerdown or pointermove handled by the scrollbar of axis a
DragStep(a) ==
    \/ \E p \in PointerPoints : PointerMove(a, p[1], p[2])
    \/ \E el \in {"thumb", "track"}, b \in Buttons, p \in PointerPoints :
          PointerDown(a, el, b, p[1], p[2])

\* a wheel event whose target is in the scrollbar of axis a
WheelStep(a) == \E d \in WheelDeltas : Wheel(a, d[1], d[2])

\* C1: a drag step or a wheel event on the scrollbar the user operates changes no
\* thumb offset and leaves the scroll offset of the other axis as it was; a
\* step that changes a thumb offset is the scroll listener or the callback of
\* the thumb's ResizeObserver.
C1_WritersTouchOwnScrollOffsetOnly ==
    [][/\ \/ /\ transform' = transform
             /\ scrollOffset'[Other(focus)] = scrollOffset[Other(focus)]
          \/ ~(WheelStep(focus) \/ DragStep(focus))
       /\ transform' # transform => ScrollEvent \/ \E a \in Axes : ThumbResize(a)]_vars

\* a drag on the track moved the scroll offset of the focus axis and the thumb
\* has not been moved yet
C1_Witness ==
    /\ capture = <<focus, "track">>
    /\ scrollPending
    /\ scrollOffset[focus] # N(0)
    /\ scrollOffset[Other(focus)] = N(0)
    /\ transform[focus] = N(0)

\* how many notifications are queued: the scroll event and the entries of the
\* ResizeObservers
Pending ==
    (IF scrollPending THEN 1 ELSE 0)
      + Cardinality({a \in Axes : resizePending[a]})

C10_WheelInterceptor ==
    [][\A d \in WheelDeltas :
          /\ \A a \in Axes :
                Wheel(a, d[1], d[2]) =>
                    LET scrollPos == Add(scrollOffset[a],
                                         N(IF a = "horizontal" THEN d[1] ELSE d[2]))
                        maxScrollPos == N(scrollSize[a] - offsetSize[a])
                        inside == /\ scrollPos[1] > 0
                                  /\ scrollPos[1] * maxScrollPos[2]
                                       < maxScrollPos[1] * scrollPos[2]
                    IN  /\ defaultPrevented' = inside
                        /\ scrollOffset'[a] =
                             IF scrollPos[1] <= 0 THEN N(0)
                             ELSE IF inside \/ scrollPos = maxScrollPos THEN scrollPos
                             ELSE maxScrollPos
                        /\ scrollOffset'[Other(a)] = scrollOffset[Other(a)]
          /\ Wheel("outside", d[1], d[2]) =>
                /\ scrollOffset' = scrollOffset
                /\ scrollPending' = scrollPending
                /\ ~defaultPrevented']_vars

\* a wheel event took the focus axis exactly to the end of the range and was
\* not prevented
C10_Witness ==
    /\ ~defaultPrevented
    /\ scrollPending
    /\ scrollOffset[focus] = N(MaxScroll(focus))
    /\ prevScrollPos[focus] = N(0)
    /\ transform[focus] = getThumbOffsetFromScroll(focus, N(200), AxisSizes(focus))
    /\ transform[focus] # N(0)

(***************************************************************************)
(* Properties of the "scroll" policy                                       *)
(***************************************************************************)
\* C4: a pointer entering the scrollbar in any state leaves the machine in
\* interacting; a pointer leaving it in interacting leaves the machine in
\* idle; the machine enters hidden only from idle, when the hide timeout fires.
C4_PointerTransitions ==
    [][\A a \in Axes :
          /\ state'[a] = "interacting" \/ ~PointerEnter(a)
          /\ state[a] = "interacting" =>
                state'[a] = "idle" \/ ~PointerLeave(a)
          /\ state[a] # "hidden" /\ state'[a] = "hidden" =>
                state[a] = "idle" /\ HideTimeout(a)]_vars

\* a second pointer entered the scrollbar while the machine was interacting
C4_Witness ==
    /\ state[focus] = "interacting"
    /\ over[focus] = 2
    /\ lastInput = "enter"

\* C5: in interacting the events SCROLL, SCROLL_END and HIDE change nothing,
\* and a step that takes the machine out of interacting is a pointer leaving the
\* scrollbar, whatever timers were pending.
C5_InteractingNeverHides ==
    [][/\ \A e \in {"SCROLL", "SCROLL_END", "HIDE"} :
             useStateMachine("interacting", e) = "interacting"
       /\ \A a \in Axes :
             state[a] = "interacting" /\ state'[a] # "interacting" =>
                 state'[a] = "idle" /\ PointerLeave(a)]_vars

\* the viewport was scrolled while the machine was interacting, and the
\* debounced SCROLL_END of that scroll has fired: the machine is still interacting
C5_Witness ==
    /\ state[focus] = "interacting"
    /\ lastInput = "scroll"
    /\ debounceTimer[focus] = Null
    /\ sinceScroll = ScrollEndWait

\* C6: when the last event of the machine was a scroll that found it outside
\* interacting, it is in idle once more than 100 have passed since that
\* scroll, stays in idle until 700 have passed, and is in hidden after that.
C6_ActivityDecay ==
    lastInput = "scroll" /\ state[focus] # "interacting" =>
        /\ sinceScroll < ScrollEndWait => state[focus] = "scrolling"
        /\ sinceScroll > ScrollEndWait /\ sinceScroll < ScrollEndWait + ScrollHideDelay =>
              state[focus] = "idle"
        /\ sinceScroll > ScrollEndWait + ScrollHideDelay => state[focus] = "hidden"

\* 700 after the last scroll the machine is back in hidden
C6_Witness ==
    /\ lastInput = "scroll"
    /\ state[focus] = "hidden"
    /\ sinceScroll = ScrollEndWait + ScrollHideDelay

\* C7: a hide timeout is pending only in idle; entering idle sets a timeout of
\* scrollHideDelay, leaving idle clears it, and the timeout fires only in idle.
C7_HideTimerOnlyInIdle ==
    [][\A a \in Axes :
          /\ hideTimer[a] # Null => state[a] = "idle"
          /\ hideTimer'[a] # Null => state'[a] = "idle"
          /\ state[a] # "idle" /\ state'[a] = "idle" =>
                hideTimer'[a] = <<ScrollHideDelay>>
          /\ state[a] = "idle" /\ state'[a] # "idle" => hideTimer'[a] = Null
          /\ state[a] = "idle" \/ ~HideTimeout(a)]_vars

\* the machine is in idle for the second time, with a full timeout: the pointer
\* left the scrollbar after a scroll had taken the machine through idle before
C7_Witness ==
    /\ state[focus] = "idle"
    /\ hideTimer[focus] = <<ScrollHideDelay>>
    /\ lastInput = "leave"
    /\ sinceScroll > ScrollEndWait
    /\ sinceScroll < MaxClock

\* C8: the debounced SCROLL_END of an axis has one pending wait at most; a
\* scroll event that finds the offset of the axis changed restarts the wait at
\* 100; SCROLL_END is sent only when 100 have passed since the last such event.
C8_ScrollEndDebounce ==
    [][/\ \A a \in Axes :
             /\ debounceTimer[a] \in {Null} \cup {<<t>> : t \in 0..ScrollEndWait}
             /\ prevScrollPos[a] # scrollOffset[a] =>
                   debounceTimer'[a] = <<ScrollEndWait>> \/ ~ScrollEvent
       /\ sinceScroll >= ScrollEndWait \/ ~ScrollEndTimeout(focus)]_vars

\* SCROLL_END was sent 100 after the second of two scrolls
C8_Witness ==
    /\ state[focus] = "idle"
    /\ lastInput = "scroll"
    /\ sinceScroll = ScrollEndWait
    /\ debounceTimer[focus] = Null
    /\ prevScrollPos[focus] = N(0)

\* C9: under the "scroll" policy the scrollbar of an axis is mounted exactly
\* when forceMount is set or the machine is not in hidden.
C9_MountedIffActive ==
    type = "scroll" =>
        \A a \in Axes : scrollbar[a] = (forceMount[a] \/ state[a] # "hidden")

\* after a scroll the machine went back to hidden and the scrollbar unmounted
C9_Witness ==
    /\ ~forceMount[focus]
    /\ state[focus] = "hidden"
    /\ lastInput = "scroll"
    /\ ~scrollbar[focus]

(***************************************************************************)
(* The thumb while the sizes change                                        *)
(***************************************************************************)
\* C3: whenever no scroll event and no ResizeObserver entry is queued, the
\* offset rendered for the thumb of a mounted scrollbar is
\* getThumbOffsetFromScroll of the current scroll offset and the current sizes
\* of the content, the viewport and the track.
C3_ThumbDerivedFromScroll ==
    \A a \in Axes :
        scrollbar[a] /\ ~scrollPending /\ ~resizePending[a] =>
            transform[a] = getThumbOffsetFromScroll(a, scrollOffset[a], AxisSizes(a))

(***************************************************************************)
(* Properties of the drag session                                          *)
(***************************************************************************)
\* C11: while a drag session is active on an axis, a pointerdown on the thumb
\* or the track of that axis changes neither the recorded rectangle, nor the
\* recorded pointer offset, nor the pointer capture, nor a scroll offset.
C11_SecondPointerDownIgnored ==
    [][\/ /\ rectRef' = rectRef
          /\ pointerOffsetRef' = pointerOffsetRef
          /\ capture' = capture
          /\ scrollOffset' = scrollOffset
       \/ ~SessionActive(focus)
       \/ ~(\E el \in {"thumb", "track"}, b \in Buttons, p \in PointerPoints :
               PointerDown(focus, el, b, p[1], p[2]))]_vars

\* C12: a pointerup releases the pointer capture and clears the recorded
\* rectangle and the recorded pointer offset; while no rectangle is recorded a
\* pointermove changes no scroll offset, and a rectangle is recorded again only
\* by a pointerdown with the main button.
C12_PointerUpEndsSession ==
    [][/\ \/ /\ capture' = Null
             /\ rectRef'[focus] = Null
             /\ pointerOffsetRef'[focus] = N(0)
          \/ ~(\E el \in {"thumb", "track"} : PointerUp(focus, el))
       /\ rectRef[focus] = Null =>
             \/ scrollOffset' = scrollOffset
             \/ ~(\E p \in PointerPoints : PointerMove(focus, p[1], p[2]))
       /\ rectRef[focus] = Null /\ rectRef'[focus] # Null =>
             \E el \in {"thumb", "track"}, p \in PointerPoints :
                 PointerDown(focus, el, MAIN_POINTER, p[1], p[2])]_vars

(***************************************************************************)
(* Drags that start at the leading edge of the thumb                       *)
(***************************************************************************)
\* client positions that include the leading edge of the thumb at rest
EdgePoints == {<<0, 0>>, <<30, 30>>}

NextDrag ==
    \/ \E v \in UserOffsets : UserScroll(focus, v)
    \/ ScrollEvent
    \/ \E a \in Axes : ThumbResize(a)
    \/ \E el \in {"thumb", "track"}, b \in Buttons, p \in EdgePoints :
          PointerDown(focus, el, b, p[1], p[2])
    \/ \E p \in EdgePoints : PointerMove(focus, p[1], p[2])
    \/ \E el \in {"thumb", "track"} : PointerUp(focus, el)

SpecDrag == Init /\ [][NextDrag]_vars

\* the scroll offset a pointermove of the focus axis at client position p gives
\* when the conversion uses pointerOffset
ScrollFromPointerWith(p, pointerOffset) ==
    LET a == focus
        sizes == AxisSizes(a)
        thumbSizePx == getThumbSizePx(thumbRatio[a], sizes.scrollbar)
        pos == IF a = "horizontal" THEN p[1] - rectRef[a][1] ELSE p[2] - rectRef[a][2]
    IN  ClampScroll(interpolateScrollPositionFromPointer(
                        N(pos), pointerOffset, WithThumb(sizes, thumbSizePx)),
                    MaxScroll(a))

\* C13: in a session started by a pointerdown with the main button on the
\* thumb at distance d from its leading edge, d = 0 included, every pointermove
\* converts with pointerOffset = d; in a session started on the track outside
\* the thumb it converts with half the length of the thumb.
C13_PointerOffsetOfDrag ==
    [][\A p \in EdgePoints :
          SessionActive(focus) /\ PointerMove(focus, p[1], p[2]) =>
              scrollOffset'[focus] =
                  IF capture = <<focus, "thumb">>
                  THEN ScrollFromPointerWith(p, pointerOffsetRef[focus])
                  ELSE ScrollFromPointerWith(p, Div(ThumbLen(focus), N(2)))]_vars

\* C14: on an axis with no recorded rectangle (no drag session active) the
\* recorded pointer offset is 0.
C14_OffsetOnlyInSession ==
    \A a \in Axes : rectRef[a] = Null => pointerOffsetRef[a] = N(0)

(***************************************************************************)
(* The "scroll" policy with drags and with the scrollbar leaving the tree  *)
(***************************************************************************)
InitTeardown == InitActivity /\ forceMount = [a \in Axes |-> FALSE]

NextTeardown ==
    \/ \E v \in UserOffsets : UserScroll(focus, v)
    \/ ScrollEvent
    \/ \E a \in Axes : ThumbResize(a)
    \/ PointerEnter(focus)
    \/ PointerLeave(focus)
    \/ \E a \in Axes : HideTimeout(a)
    \/ \E a \in Axes : ScrollEndTimeout(a)
    \/ Elapse
    \/ \E el \in {"thumb", "track"}, p \in PointerPoints :
          PointerDown(focus, el, MAIN_POINTER, p[1], p[2])
    \/ \E p \in PointerPoints : PointerMove(focus, p[1], p[2])
    \/ \E el \in {"thumb", "track"} : PointerUp(focus, el)
    \/ Teardown(focus)

SpecTeardown == InitTeardown /\ [][NextTeardown]_vars

\* C15: once the ScrollAreaScrollbar of an axis has left the tree, neither its
\* hide timeout nor its debounced SCROLL_END is pending.
C15_TeardownClearsTimers ==
    \A a \in Axes : ~alive[a] => hideTimer[a] = Null /\ debounceTimer[a] = Null

\* C16: when the scrollbar of an axis leaves the document while a drag session
\* on it is active, whether the policy hides it or the ScrollAreaScrollbar is
\* removed, the pointer capture is released and the recorded rectangle and the
\* recorded pointer offset of that axis are cleared.
C16_TeardownEndsDrag ==
    [][\A a \in Axes :
          SessionActive(a) /\ scrollbar[a] /\ ~scrollbar'[a] =>
              /\ capture' = Null
              /\ rectRef'[a] = Null
              /\ pointerOffsetRef'[a] = N(0)]_vars

C16_Witness ==
    /\ unmountedInDrag[focus] = "removed"
    /\ ~alive[focus]
    /\ capture = Null
    /\ rectRef[focus] = Null
    /\ pointerOffsetRef[focus] = N(0)
    /\ scrollOffset[focus] \notin {N(v) : v \in UserOffsets}

(***************************************************************************)
(* Properties of the ratio and of the thumb size                           *)
(***************************************************************************)
\* C17: once every notification of a size change of an axis is delivered (the
\* scrollbar has rendered with the current content size and no ResizeObserver
\* entry is queued), the ratio of the axis is the computed length of the track
\* divided by the content size, and 0 when the content size is 0.
C17_RatioFollowsSizes ==
    \A a \in Axes :
        scrollbar[a] /\ effectContent[a] = <<scrollSize[a]>> /\ ~resizePending[a] =>
            thumbRatio[a] = IF scrollSize[a] = 0 THEN N(0)
                            ELSE Div(N(ComputedLength(a)), N(scrollSize[a]))

(***************************************************************************)
(* The conversions on their own: the sizes and the arguments are drawn     *)
(* from sets that hold the degenerate cases, and each step applies one     *)
(* function of ScrollAreaScrollbarVisible to them.                         *)
(***************************************************************************)
\* scrollWidth: 0 for an empty or missing viewport, 300 below the offsetWidth
\* of a viewport with borders, 400 equal to it
GeometryContents == {0, 300, 400, 1000}

GeometryViewport == 400

\* clientWidth of the scrollbar: 0 while it is not laid out
GeometryTracks == {0, 100}

GeometryPaddings == {<<0, 0>>, <<10, 10>>}

\* the ratios the layout effect produces from a computed width and a content size
GeometryRatios ==
    {Div(toInt(w), N(c)) : w \in GeometryTracks, c \in GeometryContents} \cup {N(0)}

GeometryArguments ==
    [scrollPos : {N(0), N(200)}, pointerPos : {N(0), N(30)}, pointerOffset : {N(0), N(5)}]

InitGeometry ==
    /\ focus \in Axes
    /\ type = "always"
    /\ forceMount = [a \in Axes |-> FALSE]
    /\ viewportPending = FALSE
    /\ registered = [a \in Axes |-> NoListeners]
    /\ alive = [a \in Axes |-> TRUE]
    /\ unmountedInDrag = [a \in Axes |-> "no"]
    /\ \E c \in GeometryContents : scrollSize = [a \in Axes |-> c]
    /\ offsetSize = [a \in Axes |-> GeometryViewport]
    /\ \E t \in GeometryTracks : clientSize = [a \in Axes |-> t]
    /\ \E p \in GeometryPaddings : padding = [a \in Axes |-> p]
    /\ \E r \in GeometryRatios : thumbRatio = [a \in Axes |-> r]
    /\ \E args \in GeometryArguments :
          sample = [scrollPos |-> args.scrollPos, pointerPos |-> args.pointerPos,
                    pointerOffset |-> args.pointerOffset, thumbSizePx |-> Null,
                    scrollFromPointer |-> Null, thumbOffsetFromScroll |-> Null]
    /\ scrollOffset = [a \in Axes |-> N(0)]
    /\ scrollPending = FALSE
    /\ state = [a \in Axes |-> "hidden"]
    /\ visible = [a \in Axes |-> FALSE]
    /\ hideTimer = [a \in Axes |-> Null]
    /\ debounceTimer = [a \in Axes |-> Null]
    /\ prevScrollPos = [a \in Axes |-> N(0)]
    /\ over = [a \in Axes |-> 0]
    /\ sinceScroll = MaxClock
    /\ lastInput = "none"
    /\ scrollbar = [a \in Axes |-> TRUE]
    /\ effectContent = [a \in Axes |-> <<scrollSize[a]>>]
    /\ resizePending = [a \in Axes |-> FALSE]
    /\ transform = [a \in Axes |-> N(0)]
    /\ pointerOffsetRef = [a \in Axes |-> N(0)]
    /\ rectRef = [a \in Axes |-> Null]
    /\ capture = Null
    /\ resizes = 0
    /\ defaultPrevented = FALSE

Apply(field, value) ==
    /\ sample # Null
    /\ sample[field] = Null
    /\ sample' = [sample EXCEPT ![field] = value]
    /\ UNCHANGED <<focus, type, forceMount, registered, viewportPending, alive, unmountedInDrag, domVars, scrollOffset,
                   scrollPending, scrollbar, thumbRatio, effectContent, resizePending,
                   transform, dragVars, activityVars, visible, clockVars, resizes,
                   defaultPrevented>>

\* thumbSizePx as both conversions compute it
ThumbSizePx(a) == Apply("thumbSizePx", getThumbSizePx(thumbRatio[a], getScrollbarSizes(a)))

ScrollFromPointer(a) ==
    Apply("scrollFromPointer",
          getScrollPositionFromPointer(a, sample.pointerOffset, sample.pointerPos,
                                       AxisSizes(a)))

ThumbOffsetFromScroll(a) ==
    Apply("thumbOffsetFromScroll", getThumbOffsetFromScroll(a, sample.scrollPos, AxisSizes(a)))

NextGeometry ==
    \/ ThumbSizePx(focus)
    \/ ScrollFromPointer(focus)
    \/ ThumbOffsetFromScroll(focus)

SpecGeometry == InitGeometry /\ [][NextGeometry]_vars

Max0(x) == IF Lt(N(0), x) THEN x ELSE N(0)

\* C18: the thumb size the conversions use is max(0, (trackSize - paddingStart
\* - paddingEnd) * ratio): a finite number that is not negative.
C18_ThumbSizeClamped ==
    sample # Null /\ sample.thumbSizePx # Null =>
        LET track == Sub(Sub(N(clientSize[focus]), N(padding[focus][1])),
                         N(padding[focus][2]))
        IN  /\ sample.thumbSizePx = Max0(Mul(track, thumbRatio[focus]))
            /\ IsFinite(sample.thumbSizePx)
            /\ Le(N(0), sample.thumbSizePx)

(***************************************************************************)
(* Size changes with wheel events and drags on the thumb                   *)
(***************************************************************************)
NextRatio ==
    \/ \E c \in ContentSizes : ContentResize(focus, c)
    \/ \E t \in TrackSizes : TrackResize(focus, t)
    \/ Render(focus)
    \/ ScrollEvent
    \/ ThumbResize(focus)
    \/ \E d \in WheelDeltas : Wheel(focus, d[1], d[2])
    \/ \E p \in PointerPoints : PointerDown(focus, "thumb", MAIN_POINTER, p[1], p[2])
    \/ \E p \in PointerPoints : PointerMove(focus, p[1], p[2])
    \/ PointerUp(focus, "thumb")

SpecRatio == Init /\ [][NextRatio]_vars

\* C19: a step that changes the ratio of an axis is no scroll event, no drag
\* step and no wheel event, and it sets the ratio to the computed length of the
\* track divided by the content size as they are now; a pointermove of a drag
\* session leaves the length of the thumb as it was.
C19_RatioChangesWithSizesOnly ==
    [][/\ \A a \in Axes :
             \/ thumbRatio'[a] = thumbRatio[a]
             \/ /\ thumbRatio'[a] = Div(N(ComputedLength(a)), N(scrollSize[a]))
                /\ ~(ScrollEvent \/ DragStep(focus) \/ WheelStep(focus))
       /\ \/ ThumbLen(focus)' = ThumbLen(focus)
          \/ ~SessionActive(focus)
          \/ ~(\E p \in PointerPoints : PointerMove(focus, p[1], p[2]))]_vars

C19_Witness ==
    /\ capture = <<focus, "thumb">>
    /\ rectRef[focus] # Null
    /\ scrollPending
    /\ scrollOffset[focus] # N(0)
    /\ scrollSize[focus] = 1600
    /\ thumbRatio[focus] = Div(N(100), N(1600))

\* the conversions of axis a are degenerate: maxScroll = content - viewport is
\* not positive, or trackSize - padding - thumbSize is not positive
Degenerate(a) ==
    LET sizes == AxisSizes(a)
        thumbSizePx == getThumbSizePx(thumbRatio[a], sizes.scrollbar)
        maxScroll == Sub(sizes.content, sizes.viewport)
        maxThumb == Sub(Sub(Sub(sizes.scrollbar.size, sizes.scrollbar.paddingStart),
                            sizes.scrollbar.paddingEnd), thumbSizePx)
    IN  Le(maxScroll, N(0)) \/ Le(maxThumb, N(0))

\* C20: when the conversions are degenerate, scrollFromPointer and
\* thumbOffsetFromScroll return 0 for every argument.
C20_ConversionsFailSoft ==
    sample # Null /\ Degenerate(focus) =>
        /\ sample.scrollFromPointer # Null => sample.scrollFromPointer = N(0)
        /\ sample.thumbOffsetFromScroll # Null => sample.thumbOffsetFromScroll = N(0)

(***************************************************************************)
(* The two conversions in sequence: a pointer position is converted to a   *)
(* scroll offset and the scroll offset to a thumb offset, for two pointer  *)
(* positions over the same sizes.                                          *)
(***************************************************************************)
\* both scrollbars are mounted under "always" and nothing has happened yet
MountedAtRest ==
    /\ focus \in Axes
    /\ type = "always"
    /\ forceMount = [a \in Axes |-> FALSE]
    /\ viewportPending = FALSE
    /\ registered = [a \in Axes |-> NoListeners]
    /\ alive = [a \in Axes |-> TRUE]
    /\ unmountedInDrag = [a \in Axes |-> "no"]
    /\ scrollOffset = [a \in Axes |-> N(0)]
    /\ scrollPending = FALSE
    /\ state = [a \in Axes |-> "hidden"]
    /\ visible = [a \in Axes |-> FALSE]
    /\ hideTimer = [a \in Axes |-> Null]
    /\ debounceTimer = [a \in Axes |-> Null]
    /\ prevScrollPos = [a \in Axes |-> N(0)]
    /\ over = [a \in Axes |-> 0]
    /\ sinceScroll = MaxClock
    /\ lastInput = "none"
    /\ scrollbar = [a \in Axes |-> TRUE]
    /\ resizePending = [a \in Axes |-> FALSE]
    /\ transform = [a \in Axes |-> N(0)]
    /\ pointerOffsetRef = [a \in Axes |-> N(0)]
    /\ rectRef = [a \in Axes |-> Null]
    /\ capture = Null
    /\ resizes = 0
    /\ defaultPrevented = FALSE

\* <<scrollWidth, offsetWidth>> of the viewport with content >= viewport >= 0
OverflowSizes == {<<0, 0>>, <<50, 40>>, <<400, 400>>, <<1000, 400>>}

\* clientX / clientY of a pointer event less the start of the recorded
\* rectangle: before the track, inside it and past its end
PointerPositions == {-10, 0, 30, 120}

PointerOffsets == {0, 5}

\* the ratio is the initial 0 or what the layout effect computed from a positive
\* computed width and content size, the current ones or earlier ones
FiniteRatios ==
    {N(0)} \cup {Div(toInt(w), N(c)) : w \in GeometryTracks \ {0},
                                      c \in {cv[1] : cv \in OverflowSizes} \ {0}}

InitRoundTrip ==
    /\ MountedAtRest
    /\ \E cv \in OverflowSizes :
          /\ scrollSize = [a \in Axes |-> cv[1]]
          /\ offsetSize = [a \in Axes |-> cv[2]]
    /\ \E t \in GeometryTracks : clientSize = [a \in Axes |-> t]
    /\ \E p \in GeometryPaddings : padding = [a \in Axes |-> p]
    /\ \E r \in FiniteRatios : thumbRatio = [a \in Axes |-> r]
    /\ effectContent = [a \in Axes |-> <<scrollSize[a]>>]
    /\ \E o \in PointerOffsets, p \in PointerPositions, q \in PointerPositions :
          /\ p < q
          /\ sample = [pointerOffset |-> N(o), pointerPos |-> <<N(p), N(q)>>,
                       scrollPos |-> Null, thumbOffset |-> Null]

\* getScrollPositionFromPointer for both pointer positions
DragTo(a) ==
    Apply("scrollPos",
          [i \in {1, 2} |->
              getScrollPositionFromPointer(a, sample.pointerOffset, sample.pointerPos[i],
                                           AxisSizes(a))])

\* getThumbOffsetFromScroll for both scroll offsets
ThumbFollows(a) ==
    /\ sample # Null
    /\ sample.scrollPos # Null
    /\ Apply("thumbOffset",
             [i \in {1, 2} |-> getThumbOffsetFromScroll(a, sample.scrollPos[i], AxisSizes(a))])

NextRoundTrip ==
    \/ DragTo(focus)
    \/ ThumbFollows(focus)

SpecRoundTrip == InitRoundTrip /\ [][NextRoundTrip]_vars

\* C21: over sizes with content >= viewport >= 0 and for every pointer offset,
\* the thumb offset of the scroll offset of a pointer position is not smaller
\* for the larger of two pointer positions.
C21_ThumbFollowsPointer ==
    sample # Null /\ sample.thumbOffset # Null =>
        Le(sample.thumbOffset[1], sample.thumbOffset[2])

C21_Witness ==
    /\ sample # Null
    /\ sample.thumbOffset # Null
    /\ scrollSize[focus] = 1000
    /\ Lt(N(0), thumbRatio[focus])
    /\ Lt(sample.scrollPos[1], sample.scrollPos[2])
    /\ Lt(sample.thumbOffset[1], sample.thumbOffset[2])

(***************************************************************************)
(* getThumbOffsetFromScroll over the scroll range                          *)
(***************************************************************************)
\* the start, the middle and the end of the scroll range of axis a
ScrollRange(a) == {N(0), Div(N(MaxScroll(a)), N(2)), N(MaxScroll(a))}

InitThumbOffset ==
    /\ MountedAtRest
    /\ \E cv \in OverflowSizes :
          /\ scrollSize = [a \in Axes |-> cv[1]]
          /\ offsetSize = [a \in Axes |-> cv[2]]
    /\ \E t \in GeometryTracks : clientSize = [a \in Axes |-> t]
    /\ \E p \in GeometryPaddings : padding = [a \in Axes |-> p]
    /\ \E r \in FiniteRatios : thumbRatio = [a \in Axes |-> r]
    /\ effectContent = [a \in Axes |-> <<scrollSize[a]>>]
    /\ \E v \in ScrollRange(focus) :
          sample = [scrollPos |-> v, thumbSizePx |-> Null, thumbOffsetFromScroll |-> Null]

NextThumbOffset ==
    \/ ThumbSizePx(focus)
    \/ ThumbOffsetFromScroll(focus)

SpecThumbOffset == InitThumbOffset /\ [][NextThumbOffset]_vars

\* trackSize - padding - thumbSize of axis a
MaxThumbPos(a) ==
    LET track == N(clientSize[a] - padding[a][1] - padding[a][2])
    IN  Sub(track, Mul(track, thumbRatio[a]))

ThumbOffsetSpansTrack(a) ==
    sample # Null /\ sample.thumbOffsetFromScroll # Null /\ MaxScroll(a) > 0 =>
        /\ sample.scrollPos = N(0) => sample.thumbOffsetFromScroll = N(0)
        /\ sample.scrollPos = N(MaxScroll(a)) => sample.thumbOffsetFromScroll = MaxThumbPos(a)
        /\ Le(N(0), sample.thumbOffsetFromScroll)
        /\ Le(sample.thumbOffsetFromScroll, MaxThumbPos(a))

DragPoints == {<<30, 30>>, <<60, 60>>}

NextEndToEnd ==
    \/ ScrollEvent
    \/ ThumbResize(focus)
    \/ \E el \in {"thumb", "track"}, p \in DragPoints :
          PointerDown(focus, el, MAIN_POINTER, p[1], p[2])
    \/ \E p \in DragPoints : PointerMove(focus, p[1], p[2])
    \/ \E el \in {"thumb", "track"} : PointerUp(focus, el)

SpecEndToEnd == Init /\ [][NextEndToEnd]_vars

\* the pointerOffset the conversion of the focus axis uses
PointerOffsetUsed ==
    OrElse(pointerOffsetRef[focus], Div(ThumbLen(focus), N(2)))

\* a pointermove of the session of the focus axis from client position q, for
\* which the scroll offset was written, to client position p changes the scroll
\* offset by perPixel for every pixel of p - q
DragScrolls(perPixel) ==
    \A p \in DragPoints, q \in DragPoints :
        \/ Sub(scrollOffset'[focus], scrollOffset[focus])
             = Mul(N(p[1] - q[1]), perPixel)
        \/ ~SessionActive(focus)
        \/ scrollOffset[focus] # ScrollFromPointerWith(q, PointerOffsetUsed)
        \/ ~PointerMove(focus, p[1], p[2])

\* C23 as stated: with viewport 400, content 1000, track 100 and no padding the
\* ratio is 0.4 and the thumb 40 long, a pointermove of +30 in a session with no
\* recorded pointer offset adds 300 to the scroll offset, and in general a
\* pointermove of D adds D * maxScroll / (trackSize - padding - thumbSize).
C23_EndToEndDrag ==
    [][/\ thumbRatio[focus] = Div(N(4), N(10))
       /\ ThumbLen(focus) = N(40)
       /\ pointerOffsetRef[focus] = N(0) => DragScrolls(N(10))
       /\ DragScrolls(Div(N(MaxScroll(focus)), MaxThumbPos(focus)))]_vars

\* C23 amended: the ratio is 0.1 and the thumb 10 long, a pointermove of +30
\* adds 200, and the general rule is as stated.
C23_EndToEndDragOfTrackRatio ==
    [][/\ thumbRatio[focus] = Div(N(1), N(10))
       /\ ThumbLen(focus) = N(10)
       /\ pointerOffsetRef[focus] = N(0) => DragScrolls(Div(N(200), N(30)))
       /\ DragScrolls(Div(N(MaxScroll(focus)), MaxThumbPos(focus)))]_vars

C23_Witness ==
    /\ capture = <<focus, "track">>
    /\ rectRef[focus] # Null
    /\ pointerOffsetRef[focus] = N(0)
    /\ scrollOffset[focus] = Add(Div(N(500), N(3)), N(200))
    /\ scrollPending
    /\ transform[focus] = N(25)

(***************************************************************************)
(* The "auto" policy: ScrollAreaScrollbarAuto                              *)
(***************************************************************************)
\* the callback of useResizeObserver(context.viewport, ...) of both
\* ScrollAreaScrollbarAuto runs: setVisible(isOverflowX / isOverflowY)
ViewportObserved ==
    /\ type = "auto"
    /\ viewportPending
    /\ viewportPending' = FALSE
    /\ Commit({}, state,
              [a \in Axes |-> IF alive[a] THEN offsetSize[a] < scrollSize[a]
                              ELSE visible[a]],
              Refs)
    /\ UNCHANGED <<focus, type, forceMount, sample, registered, alive, domVars, scrollOffset,
                   scrollPending, debounceTimer, prevScrollPos, clockVars, resizes,
                   defaultPrevented>>

\* scrollWidth and offsetWidth of the viewport: equal, or the content overflows
AutoSizes == {400, 1000}

InitAuto == InitWith({"auto"})

NextAuto ==
    \/ \E c \in AutoSizes : ContentResize(focus, c)
    \/ \E v \in AutoSizes : ViewportResize(focus, v)
    \/ ViewportObserved
    \/ Render(focus)
    \/ \E v \in UserOffsets : UserScroll(focus, v)
    \/ ScrollEvent
    \/ \E a \in Axes : ThumbResize(a)

SpecAuto == InitAuto /\ [][NextAuto]_vars

\* C24: under "auto", once the entries of the ResizeObservers are delivered, the
\* scrollbar of an axis is present iff forceMount is set or the content of the
\* viewport is larger than the viewport along that axis.
C24_AutoPresentIffOverflow ==
    type = "auto" /\ ~viewportPending =>
        \A a \in Axes : scrollbar[a] <=> (forceMount[a] \/ scrollSize[a] > offsetSize[a])

(***************************************************************************)
(* The "hover" policy: ScrollAreaScrollbarHover                            *)
(***************************************************************************)
\* how many times the effect of ScrollAreaScrollbarHover runs in one behaviour
MaxSubscriptions == 2

\* a variant whose handlePointerLeave keeps the scrollbar
HoverVisibleKept(event) == TRUE

\* what handlePointerEnter and handlePointerLeave pass to setVisible
HoverVisible(event) == event = "pointerenter"

\* the listeners of the scroll area for `event` run; a state update of a
\* component that left the tree is dropped
HoverAfter(event, count) ==
    [a \in Axes |-> IF count[a] > 0 /\ alive[a] THEN HoverVisible(event) ELSE visible[a]]

\* the pointer enters the scroll area
RegionEnter ==
    /\ lastInput # "regionenter"
    /\ lastInput' = "regionenter"
    /\ Commit({}, state, HoverAfter("pointerenter", [a \in Axes |-> registered[a].enter]),
              Refs)
    /\ UNCHANGED <<focus, type, forceMount, sample, registered, viewportPending, alive,
                   domVars, scrollOffset, scrollPending, debounceTimer, prevScrollPos,
                   sinceScroll, resizes, defaultPrevented>>

\* the pointer leaves the scroll area, from the scrollbar or from the rest of it
RegionLeave ==
    /\ lastInput = "regionenter"
    /\ lastInput' = "regionleave"
    /\ Commit({}, state, HoverAfter("pointerleave", [a \in Axes |-> registered[a].leave]),
              [Refs EXCEPT !.over = [a \in Axes |-> 0]])
    /\ UNCHANGED <<focus, type, forceMount, sample, registered, viewportPending, alive,
                   domVars, scrollOffset, scrollPending, debounceTimer, prevScrollPos,
                   sinceScroll, resizes, defaultPrevented>>

\* the pointer moves inside the scroll area onto the scrollbar of axis a, or
\* from it to the rest of the scroll area: the scroll area gets no event
OverScrollbar(a, n) ==
    /\ type = "hover"
    /\ lastInput = "regionenter"
    /\ scrollbar[a]
    /\ over[a] # n
    /\ NoRender([Refs EXCEPT !.over[a] = n])
    /\ UNCHANGED <<focus, type, forceMount, sample, registered, viewportPending, alive,
                   domVars, scrollOffset, scrollPending, debounceTimer, prevScrollPos,
                   clockVars, resizes, defaultPrevented>>

\* context.viewport changes identity: the effect of every ScrollAreaScrollbarHover
\* is cleaned up and runs again
Resubscribe ==
    /\ type = "hover"
    /\ \E a \in Axes : alive[a]
    /\ \A a \in Axes : registered[a].enter < MaxSubscriptions
    /\ registered' = [a \in Axes |-> IF alive[a] THEN Subscribed(Unsubscribed(registered[a]))
                                     ELSE registered[a]]
    /\ UNCHANGED <<focus, type, forceMount, sample, viewportPending, alive,
                   unmountedInDrag, domVars, scrollOffset, scrollPending, scrollbar,
                   thumbRatio, effectContent, resizePending, transform, dragVars,
                   activityVars, visible, clockVars, resizes, defaultPrevented>>

InitHover == InitWith({"hover"})

NextHover ==
    \/ RegionEnter
    \/ RegionLeave
    \/ \E n \in {0, 1} : OverScrollbar(focus, n)
    \/ Resubscribe
    \/ Teardown(focus)
    \/ \E v \in UserOffsets : UserScroll(focus, v)
    \/ ScrollEvent
    \/ \E a \in Axes : ThumbResize(a)

SpecHover == InitHover /\ [][NextHover]_vars

\* C25: under "hover" the scrollbar of an axis is present iff forceMount is set
\* or the latest pointerenter / pointerleave of the scroll area was a
\* pointerenter; it is absent before the first pointerenter, and a move between
\* the scrollbar and the rest of the scroll area keeps it.
C25_HoverPresentIffInside ==
    type = "hover" =>
        \A a \in Axes :
            alive[a] => (scrollbar[a] <=> (forceMount[a] \/ lastInput = "regionenter"))

C25_Witness ==
    /\ type = "hover"
    /\ lastInput = "regionenter"
    /\ ~forceMount[focus]
    /\ scrollbar[focus]
    /\ over[focus] = 1
    /\ registered[focus].enter = 2

(***************************************************************************)
(* A `type` that is none of the four policies                              *)
(***************************************************************************)
UnknownTypes == {"glide"}

InitUnknown == InitWith(UnknownTypes)

NextUnknown ==
    \/ RegionEnter
    \/ RegionLeave
    \/ Teardown(focus)
    \/ \E v \in UserOffsets : UserScroll(focus, v)
    \/ ScrollEvent

SpecUnknown == InitUnknown /\ [][NextUnknown]_vars

\* C26: with a `type` other than always, auto, hover and scroll the scrollbar
\* behaves as under "hover": it is present iff forceMount is set or the latest
\* pointerenter / pointerleave of the scroll area was a pointerenter.
C26_UnknownTypeIsHover ==
    type \notin Policies =>
        \A a \in Axes :
            alive[a] => (scrollbar[a] <=> (forceMount[a] \/ lastInput = "regionenter"))

(***************************************************************************)
(* The "scroll" policy with events on both axes                            *)
(***************************************************************************)
NextAxes ==
    \/ \E a \in Axes, v \in UserOffsets : UserScroll(a, v)
    \/ ScrollEvent
    \/ PointerEnter(Other(focus))
    \/ PointerLeave(Other(focus))
    \/ \E a \in Axes : HideTimeout(a)
    \/ \E a \in Axes : ScrollEndTimeout(a)
    \/ Elapse

SpecAxes == InitTeardown /\ [][NextAxes]_vars

\* an event of axis b alone: the user scrolls along b, a scroll event after the
\* scroll offset of b alone changed, the pointer enters or leaves the scrollbar
\* of b, or a timer of b is due
EventOf(b) ==
    \/ ScrollEvent /\ prevScrollPos[Other(b)] = scrollOffset[Other(b)]
    \/ \E v \in UserOffsets : UserScroll(b, v)
    \/ PointerEnter(b)
    \/ PointerLeave(b)
    \/ HideTimeout(b)
    \/ ScrollEndTimeout(b)

\* C27: an event of one axis changes neither the activity state, nor the
\* timers, nor the presence of the scrollbar of the other axis.
C27_AxesIndependent ==
    [][\A a \in Axes :
          \/ /\ state'[a] = state[a]
             /\ debounceTimer'[a] = debounceTimer[a]
             /\ hideTimer'[a] = hideTimer[a]
             /\ scrollbar'[a] = scrollbar[a]
             /\ visible'[a] = visible[a]
          \/ ~EventOf(Other(a))]_vars

C27_Witness ==
    /\ state[Other(focus)] = "idle"
    /\ hideTimer[Other(focus)] = <<ScrollHideDelay - ScrollEndWait>>
    /\ state[focus] = "scrolling"
    /\ debounceTimer[focus] = <<ScrollEndWait>>
    /\ ~scrollPending

(***************************************************************************)
(* Drags that the browser cancels                                          *)
(***************************************************************************)
\* pointercancel on the scrollbar of axis a while one of its elements holds the
\* pointer: ScrollAreaScrollbarImpl and ScrollAreaThumb have no onPointerCancel,
\* so no handler runs; the browser releases the capture after the event
PointerCancel(a) ==
    /\ scrollbar[a]
    /\ capture # Null
    /\ capture[1] = a
    /\ capture' = Null
    /\ UNCHANGED <<focus, type, forceMount, sample, registered, viewportPending, alive,
                   unmountedInDrag, domVars, scrollOffset, scrollPending, scrollbar,
                   thumbRatio, effectContent, resizePending, transform,
                   pointerOffsetRef, rectRef, activityVars, visible, resizes,
                   defaultPrevented, clockVars>>

NextCancel ==
    \/ NextDrag
    \/ PointerCancel(focus)

SpecCancel == Init /\ [][NextCancel]_vars

\* C28: a pointercancel during a drag session of an axis clears the recorded
\* rectangle and the recorded pointer offset of the axis, as a pointerup does,
\* and while no element holds the pointer a pointermove over the scrollbar
\* changes no scroll offset.
C28_PointerCancelEndsSession ==
    [][/\ \/ /\ rectRef'[focus] = Null
             /\ pointerOffsetRef'[focus] = N(0)
          \/ ~SessionActive(focus)
          \/ ~PointerCancel(focus)
       /\ \/ scrollOffset' = scrollOffset
          \/ capture # Null
          \/ ~(\E p \in EdgePoints : PointerMove(focus, p[1], p[2]))]_vars

(***************************************************************************)
(* The decay of the "scroll" policy when the timers are served             *)
(***************************************************************************)
NextDecay ==
    \/ \E v \in UserOffsets : UserScroll(focus, v)
    \/ ScrollEvent
    \/ PointerEnter(focus)
    \/ PointerLeave(focus)
    \/ \E a \in Axes : HideTimeout(a)
    \/ \E a \in Axes : ScrollEndTimeout(a)
    \/ Elapse

\* what the timers do on their own: time passes, and a timeout that is due runs
TimerStep ==
    \/ Elapse
    \/ \E a \in Axes : HideTimeout(a) \/ ScrollEndTimeout(a)

\* window.setTimeout and lodash's debounce run a callback once it is due, and
\* time passes while a timer is pending
SpecDecay ==
    /\ InitActivity
    /\ [][NextDecay]_vars
    /\ WF_vars(Elapse)
    /\ \A a \in Axes : WF_vars(HideTimeout(a)) /\ WF_vars(ScrollEndTimeout(a))

\* C29: while the machine of an axis is in scrolling its debounced SCROLL_END
\* is pending; the timers alone never take a machine into interacting; and when
\* from some moment on only the timers act, the machine ends in hidden for
\* good, unless it was left in interacting by an event other than the pointer
\* leaving the scrollbar.
C29_DecaysToHidden ==
    /\ [](\A a \in Axes : state[a] = "scrolling" => debounceTimer[a] # Null)
    /\ [][state'[focus] = "interacting" => state[focus] = "interacting" \/ ~TimerStep]_vars
    /\ <>[][TimerStep]_vars =>
          <>[](\/ state[focus] = "hidden"
               \/ state[focus] = "interacting" /\ lastInput # "leave")

\* the machine is back in hidden 600 after the pointer left the scrollbar
C29_Witness ==
    /\ state[focus] = "hidden"
    /\ lastInput = "leave"
    /\ over[focus] = 0
    /\ hideTimer[focus] = Null
    /\ debounceTimer[focus] = Null
    /\ ~forceMount[focus]

(***************************************************************************)
(* The listeners of the "hover" policy                                     *)
(***************************************************************************)
\* C30: the ScrollAreaScrollbarHover of an axis has one pointerenter and one
\* pointerleave listener on the scroll area at most, also after its effect ran
\* again, and none once it has left the tree.
C30_ListenersRemoved ==
    \A a \in Axes :
        /\ registered[a].enter <= 1
        /\ registered[a].leave <= 1
        /\ ~alive[a] => registered[a] = NoListeners
====
